---- MODULE Spec2Model ----
(***************************************************************************)
(* Model of pkg/schema/dirreader.go: the DirReader that resolves a         *)
(* "directory" schema blob, lazily resolves its "static-set" and lists     *)
(* the members with one goroutine per member (Readdir): specification Spec.*)
(* Model of lib/go/camli/auth/auth.go: the process-wide auth mode set by   *)
(* FromConfig and the RequireAuth wrapper: specification AuthSpec.         *)
(***************************************************************************)
EXTENDS Integers, Sequences, FiniteSets, TLC

VARIABLES
    store,      \* the blob store behind the Fetcher: ref -> blob content
    dirRef,     \* the dirBlobRef argument of NewDirReader
    pc,         \* "start" | "nodr" | "idle" | "launch" | "collect"
    dr,         \* the DirReader: [ss, staticSet, current]
    fetched,    \* log of the refs handed to fetcher.Fetch, in call order
    calls,      \* number of StaticSet / Readdir calls made so far
    rd,         \* the locals of the running (or last) Readdir call
    cs,         \* Readdir's channels, one per launched goroutine
    orphans,    \* goroutines still running after their Readdir returned
    ret,        \* what the last call returned
    open,       \* number of fetched byte streams (rsc) not closed yet
    hist,       \* observations about the run, written but never read by the program
    mode,       \* auth: the package variable mode (AuthMode)
    env,        \* auth: the value of CAMLI_ADVERTISED_PASSWORD
    cfg,        \* auth: the last FromConfig call: argument, results, mode before it
    resp        \* auth: the last request served by a RequireAuth wrapper

dirVars == <<store, dirRef, pc, dr, fetched, calls, rd, cs, orphans, ret, open, hist>>
authVars == <<mode, env, cfg, resp>>
vars == <<store, dirRef, pc, dr, fetched, calls, rd, cs, orphans, ret, open, hist,
          mode, env, cfg, resp>>

----------------------------------------------------------------------------
(* Bounds of the model *)

\* longest static-set member list
MaxMembers == 5
\* largest n passed to Readdir (the smallest is -1)
MaxN == 3
\* number of StaticSet / Readdir calls on the DirReader
MaxCalls == 3

----------------------------------------------------------------------------
(* Blob refs *)

InvalidRef == ""
DirRef == "sha1-dir"
SSRef == "sha1-ss"
MemberNames == <<"sha1-m1", "sha1-m2", "sha1-m3", "sha1-m4", "sha1-m5",
                 "sha1-m6", "sha1-m7", "sha1-m8">>

\* blob.Ref.Valid: a well-formed, non-empty digest
Valid(ref) == ref # InvalidRef

\* a member list of length len whose member at position bad (0: none) is invalid
MemberList(len, bad) ==
    [i \in 1..len |-> IF i = bad THEN InvalidRef ELSE MemberNames[i]]

----------------------------------------------------------------------------
(* Schema blobs: the JSON document a blob decodes to (the superset) *)

Undecodable == [decodes |-> FALSE, Type |-> "", Entries |-> InvalidRef, Members |-> <<>>]

superset(type, entries, members) ==
    [decodes |-> TRUE, Type |-> type, Entries |-> entries, Members |-> members]

DirBlobs ==
    { Undecodable,
      superset("file", InvalidRef, <<>>),
      superset("directory", InvalidRef, <<>>),
      superset("directory", SSRef, <<>>) }

SSBlobs ==
    { Undecodable, superset("file", InvalidRef, <<>>) }
    \cup { superset("static-set", InvalidRef, MemberList(len, bad)) :
             len \in 0..MaxMembers, bad \in 0..MaxMembers }

\* a DirectoryEntry is opaque here: it is known by the blob it was made from
Ent(ref) == [blobref |-> ref]
NilEnt == [blobref |-> InvalidRef]

\* NewDirectoryEntryFromBlobRef(fetcher, entRef): the external entry resolver
NewDirectoryEntryFromBlobRef(entRef, ok) ==
    IF ok THEN [ent |-> Ent(entRef), err |-> "nil"]
          ELSE [ent |-> NilEnt, err |-> "dirEntry"]

\* json.NewDecoder(rsc).Decode(ss) / parseSuperset(rsc)
parseSuperset(blob) ==
    IF blob.decodes THEN [err |-> "nil", ss |-> blob]
                    ELSE [err |-> "decode", ss |-> Undecodable]

----------------------------------------------------------------------------
(* NewDirReader *)

\* mutant: the static-set is fetched eagerly, while the directory blob is read
setFromBlobRef_eager(blobRef, fetchOk) ==
    IF ~Valid(blobRef)
    THEN [err |-> "invalid", ss |-> Undecodable, fetched |-> <<>>,
          opened |-> 0, closed |-> 0]
    ELSE IF ~fetchOk
    THEN [err |-> "fetch", ss |-> Undecodable, fetched |-> <<blobRef>>,
          opened |-> 0, closed |-> 0]
    ELSE LET d == parseSuperset(store[blobRef]) IN
         [err |-> d.err, ss |-> d.ss,
          fetched |-> IF d.err = "nil" /\ Valid(d.ss.Entries)
                      THEN <<blobRef, d.ss.Entries>> ELSE <<blobRef>>,
          opened |-> 1, closed |-> 1]

\* mutant: the ref is fetched without the Valid() test
setFromBlobRef_nocheck(blobRef, fetchOk) ==
    IF ~fetchOk \/ ~Valid(blobRef)
    THEN [err |-> "fetch", ss |-> Undecodable, fetched |-> <<blobRef>>,
          opened |-> 0, closed |-> 0]
    ELSE LET d == parseSuperset(store[blobRef]) IN
         [err |-> d.err, ss |-> d.ss, fetched |-> <<blobRef>>,
          opened |-> 1, closed |-> 1]

\* superset.setFromBlobRef: validity test, one Fetch, defer rsc.Close(), decode.
\* opened: the streams Fetch returned; closed: those closed when it returns
setFromBlobRef(blobRef, fetchOk) ==
    IF ~Valid(blobRef)
    THEN [err |-> "invalid", ss |-> Undecodable, fetched |-> <<>>,
          opened |-> 0, closed |-> 0]
    ELSE IF ~fetchOk
    THEN [err |-> "fetch", ss |-> Undecodable, fetched |-> <<blobRef>>,
          opened |-> 0, closed |-> 0]
    ELSE LET d == parseSuperset(store[blobRef]) IN
         [err |-> d.err, ss |-> d.ss, fetched |-> <<blobRef>>,
          opened |-> 1, closed |-> 1]

NoDirReader == [ss |-> Undecodable, staticSet |-> <<>>, current |-> 0]

\* superset.NewDirReader: &DirReader{fetcher: fetcher, ss: ss}
supersetNewDirReader(ss) ==
    IF ss.Type # "directory"
    THEN [err |-> "type", dr |-> NoDirReader]
    ELSE [err |-> "nil", dr |-> [ss |-> ss, staticSet |-> <<>>, current |-> 0]]

NoRet == [op |-> "none", err |-> "nil", val |-> <<>>, entries |-> <<>>]

NoRd == [n |-> 0, cur0 |-> 0, sts |-> <<>>, lo |-> 0, up |-> 0, err |-> "nil",
         ci |-> 0, entries |-> <<>>]

NoLast == [op |-> "none", n |-> 0, err |-> "nil", entries |-> <<>>]

\* log0: the length of the fetch log when the last call began; ssErr: the error
\* of the last static-set resolution; left: the goroutines still running when
\* the last Readdir returned
NoHist == [resolvedAt |-> 0, anyErr |-> FALSE, outOfOrder |-> FALSE,
           last |-> NoLast, prev |-> NoLast,
           log0 |-> 0, ssErr |-> "nil", left |-> 0]

NewDirReader ==
    /\ pc = "start"
    /\ \E fetchOk \in BOOLEAN :
         LET s == setFromBlobRef(dirRef, fetchOk)
             err == IF s.err # "nil" THEN s.err
                    ELSE IF s.ss.Type # "directory" THEN "type"
                    ELSE supersetNewDirReader(s.ss).err
         IN /\ fetched' = fetched \o s.fetched
            /\ IF err = "nil"
               THEN /\ dr' = [supersetNewDirReader(s.ss).dr EXCEPT !.current = 0]
                    /\ pc' = "idle"
               ELSE /\ dr' = NoDirReader
                    /\ pc' = "nodr"
            /\ ret' = [NoRet EXCEPT !.op = "NewDirReader", !.err = err]
            /\ open' = open + s.opened - s.closed
    /\ UNCHANGED <<store, dirRef, calls, rd, cs, orphans, hist>>
    /\ UNCHANGED authVars

----------------------------------------------------------------------------
(* StaticSet *)

\* the loop over ss.Members: append each valid member, stop at an invalid one
RECURSIVE appendMembers(_, _)
appendMembers(staticSet, members) ==
    IF members = <<>> THEN [err |-> "nil", staticSet |-> staticSet]
    ELSE IF ~Valid(Head(members)) THEN [err |-> "invalid member", staticSet |-> staticSet]
    ELSE appendMembers(Append(staticSet, Head(members)), Tail(members))

\* mutant: a failed Fetch of the static-set blob is tried a second time
StaticSet_retry(d, fetchOk) ==
    IF d.staticSet # <<>>
    THEN [val |-> d.staticSet, err |-> "nil", staticSet |-> d.staticSet, fetched |-> <<>>,
          opened |-> 0, closed |-> 0]
    ELSE IF ~Valid(d.ss.Entries)
    THEN [val |-> <<>>, err |-> "invalid", staticSet |-> d.staticSet, fetched |-> <<>>,
          opened |-> 0, closed |-> 0]
    ELSE IF ~fetchOk
    THEN [val |-> <<>>, err |-> "fetch", staticSet |-> d.staticSet,
          fetched |-> <<d.ss.Entries, d.ss.Entries>>, opened |-> 0, closed |-> 0]
    ELSE LET p == parseSuperset(store[d.ss.Entries]) IN
         IF p.err # "nil"
         THEN [val |-> <<>>, err |-> "decode", staticSet |-> d.staticSet,
               fetched |-> <<d.ss.Entries>>, opened |-> 1, closed |-> 0]
         ELSE IF p.ss.Type # "static-set"
         THEN [val |-> <<>>, err |-> "type", staticSet |-> d.staticSet,
               fetched |-> <<d.ss.Entries>>, opened |-> 1, closed |-> 0]
         ELSE LET a == appendMembers(d.staticSet, p.ss.Members) IN
              [val |-> IF a.err = "nil" THEN a.staticSet ELSE <<>>,
               err |-> a.err, staticSet |-> a.staticSet,
               fetched |-> <<d.ss.Entries>>, opened |-> 1, closed |-> 0]

\* DirReader.StaticSet: the value returned, the error, the new cache, the
\* fetches, and the streams opened and closed (StaticSet holds no rsc.Close())
StaticSet(d, fetchOk) ==
    IF d.staticSet # <<>>
    THEN [val |-> d.staticSet, err |-> "nil", staticSet |-> d.staticSet, fetched |-> <<>>,
          opened |-> 0, closed |-> 0]
    ELSE IF ~Valid(d.ss.Entries)
    THEN [val |-> <<>>, err |-> "invalid", staticSet |-> d.staticSet, fetched |-> <<>>,
          opened |-> 0, closed |-> 0]
    ELSE IF ~fetchOk
    THEN [val |-> <<>>, err |-> "fetch", staticSet |-> d.staticSet,
          fetched |-> <<d.ss.Entries>>, opened |-> 0, closed |-> 0]
    ELSE LET p == parseSuperset(store[d.ss.Entries]) IN
         IF p.err # "nil"
         THEN [val |-> <<>>, err |-> "decode", staticSet |-> d.staticSet,
               fetched |-> <<d.ss.Entries>>, opened |-> 1, closed |-> 0]
         ELSE IF p.ss.Type # "static-set"
         THEN [val |-> <<>>, err |-> "type", staticSet |-> d.staticSet,
               fetched |-> <<d.ss.Entries>>, opened |-> 1, closed |-> 0]
         ELSE LET a == appendMembers(d.staticSet, p.ss.Members) IN
              [val |-> IF a.err = "nil" THEN a.staticSet ELSE <<>>,
               err |-> a.err, staticSet |-> a.staticSet,
               fetched |-> <<d.ss.Entries>>, opened |-> 1, closed |-> 0]

\* hist.resolvedAt: the length of the fetch log when StaticSet first succeeded
NoteResolved(h, s, log) ==
    IF h.resolvedAt = 0 /\ s.err = "nil" THEN [h EXCEPT !.resolvedAt = Len(log)] ELSE h

StaticSetCall ==
    /\ pc = "idle"
    /\ calls < MaxCalls
    /\ \E fetchOk \in BOOLEAN :
         LET s == StaticSet(dr, fetchOk) IN
         /\ dr' = [dr EXCEPT !.staticSet = s.staticSet]
         /\ fetched' = fetched \o s.fetched
         /\ ret' = [NoRet EXCEPT !.op = "StaticSet", !.err = s.err, !.val = s.val]
         /\ open' = open + s.opened - s.closed
         /\ hist' = [NoteResolved(hist, s, fetched \o s.fetched)
                       EXCEPT !.log0 = Len(fetched), !.ssErr = s.err]
    /\ calls' = calls + 1
    /\ UNCHANGED <<store, dirRef, pc, rd, cs, orphans>>
    /\ UNCHANGED authVars

----------------------------------------------------------------------------
(* Readdir *)

\* mutant: an unbuffered result channel, make(chan res)
ChanCap_unbuffered == Len(<<>>)

\* capacity of each result channel: make(chan res, 1)
ChanCap == 1

\* mutant: only a negative n lists everything
ListAll_negative(n) == n < 0

\* the "list everything" test: n <= 0
ListAll(n) == n <= 0

\* mutant: the unclamped upper bound is one short
RangeUp_short(current, n, len) ==
    IF ListAll(n) THEN len
    ELSE IF n > len - current THEN len
    ELSE current + n - 1

\* up: the upper bound of the slice sts[dr.current:up]
RangeUp(current, n, len) ==
    IF ListAll(n) THEN len
    ELSE IF n > len - current THEN len
    ELSE current + n

\* err after the range computation: io.EOF when fewer than n members remain
RangeErr(current, n, len) ==
    IF ~ListAll(n) /\ n > len - current THEN "io.EOF" ELSE "nil"

\* mutant: a page moves the cursor forward by n
NextCurrent_advance(current, n) == IF ListAll(n) THEN 0 ELSE current + n

\* dr.current after the range computation: reset by n <= 0, otherwise untouched
NextCurrent(current, n) == IF ListAll(n) THEN 0 ELSE current

\* the slice sts[lo:up]
Slice(sts, lo, up) == SubSeq(sts, lo + 1, up)

\* mutant: at most two goroutines are started for a range
ToLaunch_capped(r, chans) ==
    (IF Len(Slice(r.sts, r.lo, r.up)) > 2 THEN 2 ELSE Len(Slice(r.sts, r.lo, r.up)))
        - Len(chans)

\* the goroutines of rd not launched yet
ToLaunch(r, chans) == Len(Slice(r.sts, r.lo, r.up)) - Len(chans)

NoteReturn(h, n, err, entries) ==
    [h EXCEPT !.last = [op |-> "Readdir", n |-> n, err |-> err, entries |-> entries]]

ReaddirCall(n) ==
    /\ pc = "idle"
    /\ calls < MaxCalls
    /\ calls' = calls + 1
    /\ cs' = <<>>
    /\ \E fetchOk \in BOOLEAN :
         LET s == StaticSet(dr, fetchOk)
             h == [NoteResolved(hist, s, fetched \o s.fetched)
                     EXCEPT !.prev = hist.last, !.anyErr = FALSE, !.outOfOrder = FALSE,
                            !.log0 = Len(fetched), !.ssErr = s.err, !.left = 0]
         IN
         /\ fetched' = fetched \o s.fetched
         /\ open' = open + s.opened - s.closed
         /\ IF s.err # "nil"
            THEN /\ dr' = [dr EXCEPT !.staticSet = s.staticSet]
                 /\ rd' = [NoRd EXCEPT !.n = n, !.cur0 = dr.current, !.err = "staticset"]
                 /\ ret' = [NoRet EXCEPT !.op = "Readdir", !.err = "staticset"]
                 /\ hist' = NoteReturn(h, n, "staticset", <<>>)
                 /\ pc' = "idle"
            ELSE LET len == Len(s.val)
                     r == [n |-> n, cur0 |-> dr.current, sts |-> s.val,
                           lo |-> NextCurrent(dr.current, n),
                           up |-> RangeUp(dr.current, n, len),
                           err |-> RangeErr(dr.current, n, len),
                           ci |-> 0, entries |-> <<>>]
                 IN /\ dr' = [dr EXCEPT !.staticSet = s.staticSet,
                                        !.current = NextCurrent(dr.current, n)]
                    /\ rd' = r
                    /\ ret' = [NoRet EXCEPT !.op = "Readdir:running"]
                    /\ hist' = h
                    /\ pc' = IF ToLaunch(r, <<>>) > 0 THEN "launch" ELSE "collect"
    /\ UNCHANGED <<store, dirRef, orphans>>
    /\ UNCHANGED authVars

\* one iteration of the launch loop: make the channel, start the goroutine
LaunchTask ==
    /\ pc = "launch"
    /\ ToLaunch(rd, cs) > 0
    /\ LET entRef == Slice(rd.sts, rd.lo, rd.up)[Len(cs) + 1]
           c == [entRef |-> entRef, st |-> "running", c |-> <<>>]
       IN /\ cs' = Append(cs, c)
          /\ pc' = IF ToLaunch(rd, Append(cs, c)) > 0 THEN "launch" ELSE "collect"
    /\ UNCHANGED <<store, dirRef, dr, fetched, calls, rd, orphans, ret, open, hist>>
    /\ UNCHANGED authVars

\* mutant: the goroutine moves the cursor past the entry it resolved
TaskEffect_advance(d, i) == [d EXCEPT !.current = @ + 1]

\* what goroutine i does to the DirReader its closure captures: it reads
\* dr.fetcher and writes nothing
TaskEffect(d, i) == d

\* goroutine i: the entry resolver returns and the result is sent on c
TaskRun(i) ==
    /\ pc \in {"launch", "collect"}
    /\ i \in 1..Len(cs)
    /\ cs[i].st = "running"
    /\ Len(cs[i].c) < ChanCap
    /\ \E ok \in BOOLEAN :
         /\ cs' = [cs EXCEPT ![i].st = "done",
                             ![i].c = Append(@, NewDirectoryEntryFromBlobRef(cs[i].entRef, ok))]
         /\ hist' = [hist EXCEPT
                        !.anyErr = @ \/ ~ok,
                        !.outOfOrder = @ \/ \E j \in 1..(i - 1) : cs[j].st = "running"]
    /\ dr' = TaskEffect(dr, i)
    /\ UNCHANGED <<store, dirRef, pc, fetched, calls, rd, orphans, ret, open>>
    /\ UNCHANGED authVars

\* mutant: receive from whichever channel already holds a result
RecvFrom_ready(chans, ci) ==
    IF \E i \in 1..Len(chans) : chans[i].c # <<>>
    THEN CHOOSE i \in 1..Len(chans) :
            /\ chans[i].c # <<>>
            /\ \A j \in 1..Len(chans) : chans[j].c # <<>> => j <= i
    ELSE ci + 1

\* the channel the collection loop receives from in its iteration ci + 1
RecvFrom(chans, ci) == ci + 1

\* mutant: the test reads Readdir's own err, not the result's
Failed_outerErr(res, err) == err # "nil"

\* res.err != nil
Failed(res, err) == res.err # "nil"

\* mutant: the collection loop stops after its first result
LoopDone_first(ci, chans) == ci >= 1 \/ Len(chans) = 0

\* the collection loop "for _, c := range cs" has visited every channel
LoopDone(ci, chans) == ci = Len(chans)

Running(chans) == Cardinality({j \in 1..Len(chans) : chans[j].st = "running"})

\* one iteration of the collection loop: res := <-c
Collect ==
    /\ pc = "collect"
    /\ ~LoopDone(rd.ci, cs)
    /\ LET i == RecvFrom(cs, rd.ci) IN
       /\ cs[i].c # <<>>
       /\ LET res == Head(cs[i].c) IN
          IF Failed(res, rd.err)
          THEN /\ ret' = [NoRet EXCEPT !.op = "Readdir", !.err = "dirEntry"]
               /\ hist' = [NoteReturn(hist, rd.n, "dirEntry", <<>>)
                             EXCEPT !.left = Running(cs)]
               /\ orphans' = orphans + Running(cs)
               /\ cs' = <<>>
               /\ pc' = "idle"
               /\ rd' = rd
          ELSE /\ rd' = [rd EXCEPT !.ci = @ + 1, !.entries = Append(@, res.ent)]
               /\ cs' = [cs EXCEPT ![i].c = Tail(@)]
               /\ UNCHANGED <<ret, hist, orphans, pc>>
    /\ UNCHANGED <<store, dirRef, dr, fetched, calls, open>>
    /\ UNCHANGED authVars

\* return entries, nil
ReaddirReturn ==
    /\ pc = "collect"
    /\ LoopDone(rd.ci, cs)
    /\ ret' = [NoRet EXCEPT !.op = "Readdir", !.err = "nil", !.entries = rd.entries]
    /\ hist' = [NoteReturn(hist, rd.n, "nil", rd.entries) EXCEPT !.left = Running(cs)]
    /\ orphans' = orphans + Running(cs)
    /\ cs' = <<>>
    /\ pc' = "idle"
    /\ UNCHANGED <<store, dirRef, dr, fetched, calls, rd, open>>
    /\ UNCHANGED authVars

\* a goroutine whose Readdir has returned sends on its own, still empty channel
OrphanRun ==
    /\ orphans > 0
    /\ 0 < ChanCap
    /\ orphans' = orphans - 1
    /\ UNCHANGED <<store, dirRef, pc, dr, fetched, calls, rd, cs, ret, open, hist>>
    /\ UNCHANGED authVars

----------------------------------------------------------------------------
(* auth: strings are sequences of tokens; ":" is the colon, every other token *)
(* is a run of characters without a colon                                     *)

RECURSIVE FirstColon(_, _)
\* the index of the first ":" of str at or after i, Len(str) + 1 when there is none
FirstColon(str, i) ==
    IF i > Len(str) THEN Len(str) + 1
    ELSE IF str[i] = ":" THEN i
    ELSE FirstColon(str, i + 1)

RECURSIVE Split(_)
\* strings.Split(str, ":")
Split(str) ==
    LET c == FirstColon(str, 1) IN
    IF c > Len(str) THEN <<str>>
    ELSE <<SubSeq(str, 1, c - 1)>> \o Split(SubSeq(str, c + 1, Len(str)))

\* strings.SplitN(str, ":", 2)
SplitN2(str) ==
    LET c == FirstColon(str, 1) IN
    IF c > Len(str) THEN <<str>>
    ELSE <<SubSeq(str, 1, c - 1), SubSeq(str, c + 1, Len(str))>>

\* the AuthMode values: nil, *UserPass, *DevAuth
NilMode == [kind |-> "nil", Username |-> <<>>, Password |-> <<>>]
UserPass(username, password) ==
    [kind |-> "UserPass", Username |-> username, Password |-> password]
DevAuth(password) == [kind |-> "DevAuth", Username |-> <<>>, Password |-> password]

\* the authConfig strings given to FromConfig
AuthConfigs ==
    { <<"userpass", ":", "joe", ":", "ponies">>,
      <<"userpass", ":", "ann", ":", "secret">>,
      <<"userpass", ":", ":">>,
      <<"userpass", ":", "joe">>,
      <<"userpass", ":", "joe", ":", "po", ":", "nies">>,
      <<"userpass">>,
      <<"devauth", ":", "joe", ":", "ponies">>,
      <<"none">>,
      <<>> }

\* the values of CAMLI_ADVERTISED_PASSWORD: unset (empty) or a password
EnvPasswords == { <<>>, <<"devpw">> }

\* mutant: a rejected authConfig clears the mode selected before
FromConfig_reset(authConfig, m, pw) ==
    LET pieces == Split(authConfig) IN
    IF Len(pieces) < 1 THEN [mode |-> NilMode, ret |-> NilMode, err |-> "invalid"]
    ELSE IF pw # <<>> THEN [mode |-> DevAuth(pw), ret |-> DevAuth(pw), err |-> "nil"]
    ELSE IF pieces[1] = <<"userpass">>
    THEN IF Len(pieces) # 3
         THEN [mode |-> NilMode, ret |-> NilMode, err |-> "wrong userpass"]
         ELSE [mode |-> UserPass(pieces[2], pieces[3]),
               ret |-> UserPass(pieces[2], pieces[3]), err |-> "nil"]
    ELSE [mode |-> NilMode, ret |-> NilMode, err |-> "unknown type"]

\* FromConfig(authConfig) with the package variable at m and the environment
\* variable at pw: the new package variable, the mode returned, the error
FromConfig(authConfig, m, pw) ==
    LET pieces == Split(authConfig) IN
    IF Len(pieces) < 1 THEN [mode |-> m, ret |-> NilMode, err |-> "invalid"]
    ELSE IF pw # <<>> THEN [mode |-> DevAuth(pw), ret |-> DevAuth(pw), err |-> "nil"]
    ELSE IF pieces[1] = <<"userpass">>
    THEN IF Len(pieces) # 3
         THEN [mode |-> m, ret |-> NilMode, err |-> "wrong userpass"]
         ELSE [mode |-> UserPass(pieces[2], pieces[3]),
               ret |-> UserPass(pieces[2], pieces[3]), err |-> "nil"]
    ELSE [mode |-> m, ret |-> NilMode, err |-> "unknown type"]

\* the Authorization header: its scheme word, whether base64 text follows it
\* ("none": no base64 character, "corrupt": text that does not decode, "ok"),
\* and the text it decodes to
Header(scheme, payload, plain) == [scheme |-> scheme, payload |-> payload, plain |-> plain]
NoHeader == Header("", "none", <<>>)
Basic(plain) == Header("Basic", "ok", plain)

Requests ==
    { NoHeader,
      Header("Digest", "ok", <<"joe", ":", "ponies">>),
      Header("Basic", "none", <<>>),
      Header("Basic", "corrupt", <<>>),
      Basic(<<"joe", ":", "ponies">>),
      Basic(<<"joe", ":", "secret">>),
      Basic(<<"ann", ":", "ponies">>),
      Basic(<<"ann", ":", "secret">>),
      Basic(<<"joeponies">>),
      Basic(<<"joe", ":", "po", ":", "nies">>),
      Basic(<<":">>),
      Basic(<<":", "devpw">>),
      Basic(<<"joe", ":", "devpw">>) }

\* basicAuth(req): user, password, error
basicAuth(auth) ==
    IF auth = NoHeader THEN [user |-> <<>>, pass |-> <<>>, err |-> "missing"]
    ELSE IF ~(auth.scheme = "Basic" /\ auth.payload # "none")
    THEN [user |-> <<>>, pass |-> <<>>, err |-> "bogus"]
    ELSE IF auth.payload = "corrupt"
    THEN [user |-> <<>>, pass |-> <<>>, err |-> "base64"]
    ELSE LET pieces == SplitN2(auth.plain) IN
         IF Len(pieces) # 2
         THEN [user |-> <<>>, pass |-> <<>>, err |-> "pieces"]
         ELSE [user |-> pieces[1], pass |-> pieces[2], err |-> "nil"]

\* (*UserPass).IsAuthorized and (*DevAuth).IsAuthorized
IsAuthorized(m, auth) ==
    LET b == basicAuth(auth) IN
    IF b.err # "nil" THEN FALSE
    ELSE IF m.kind = "UserPass" THEN b.user = m.Username /\ b.pass = m.Password
    ELSE b.pass = m.Password

NoResp == [op |-> "none", auth |-> NoHeader, mode |-> NilMode, panic |-> FALSE,
           handler |-> FALSE, status |-> 0, wwwAuthenticate |-> <<>>, body |-> ""]

\* SendUnauthorized(conn): the challenge header, the 401 status, the body
SendUnauthorized(m, r) ==
    LET realm == IF m.kind = "DevAuth"
                 THEN <<"Any username, password is: ">> \o m.Password
                 ELSE <<"camlistored">>
    IN [r EXCEPT !.wwwAuthenticate = <<"Basic realm=">> \o realm,
                 !.status = 401,
                 !.body = "<h1>Unauthorized</h1>"]

\* mutant: the else is missing, the handler runs after the 401 as well
RequireAuth_noElse(m, auth) ==
    LET r == [NoResp EXCEPT !.op = "request", !.auth = auth, !.mode = m] IN
    IF m.kind = "nil" THEN [r EXCEPT !.panic = TRUE]
    ELSE IF IsAuthorized(m, auth) THEN [r EXCEPT !.handler = TRUE]
    ELSE [SendUnauthorized(m, r) EXCEPT !.handler = TRUE]

\* the function RequireAuth(handler) returns, applied to a request: a nil mode
\* panics on mode.IsAuthorized
RequireAuth(m, auth) ==
    LET r == [NoResp EXCEPT !.op = "request", !.auth = auth, !.mode = m] IN
    IF m.kind = "nil" THEN [r EXCEPT !.panic = TRUE]
    ELSE IF IsAuthorized(m, auth) THEN [r EXCEPT !.handler = TRUE]
    ELSE SendUnauthorized(m, r)

NoCfg == [op |-> "none", authConfig |-> <<>>, ret |-> NilMode, err |-> "nil",
          before |-> NilMode]

FromConfigCall(authConfig) ==
    /\ LET f == FromConfig(authConfig, mode, env) IN
       /\ mode' = f.mode
       /\ cfg' = [op |-> "FromConfig", authConfig |-> authConfig, ret |-> f.ret,
                  err |-> f.err, before |-> mode]
    /\ UNCHANGED <<env, resp>>
    /\ UNCHANGED dirVars

Request(auth) ==
    /\ resp' = RequireAuth(mode, auth)
    /\ UNCHANGED <<mode, env, cfg>>
    /\ UNCHANGED dirVars

----------------------------------------------------------------------------

Init ==
    /\ dirRef \in {DirRef, InvalidRef}
    /\ store \in {[r \in {DirRef, SSRef} |-> IF r = DirRef THEN d ELSE s] :
                    d \in DirBlobs, s \in SSBlobs}
    /\ pc = "start"
    /\ dr = NoDirReader
    /\ fetched = <<>>
    /\ calls = 0
    /\ rd = NoRd
    /\ cs = <<>>
    /\ orphans = 0
    /\ ret = NoRet
    /\ open = 0
    /\ hist = NoHist
    /\ mode = NilMode
    /\ env = <<>>
    /\ cfg = NoCfg
    /\ resp = NoResp

Next ==
    \/ NewDirReader
    \/ StaticSetCall
    \/ \E n \in -1..MaxN : ReaddirCall(n)
    \/ LaunchTask
    \/ \E i \in 1..MaxMembers : TaskRun(i)
    \/ Collect
    \/ ReaddirReturn
    \/ OrphanRun

Spec == Init /\ [][Next]_vars

\* the auth package alone: no DirReader is built
AuthInit ==
    /\ dirRef = InvalidRef
    /\ store = [r \in {DirRef, SSRef} |-> Undecodable]
    /\ pc = "start"
    /\ dr = NoDirReader
    /\ fetched = <<>>
    /\ calls = 0
    /\ rd = NoRd
    /\ cs = <<>>
    /\ orphans = 0
    /\ ret = NoRet
    /\ open = 0
    /\ hist = NoHist
    /\ mode = NilMode
    /\ env \in EnvPasswords
    /\ cfg = NoCfg
    /\ resp = NoResp

AuthNext ==
    \/ \E authConfig \in AuthConfigs : FromConfigCall(authConfig)
    \/ \E auth \in Requests : Request(auth)

AuthSpec == AuthInit /\ [][AuthNext]_vars

----------------------------------------------------------------------------
(* Properties *)

Min(a, b) == IF a < b THEN a ELSE b

\* the entries of the members sts[lo+1 .. up], in member order
EntriesOf(sts, lo, up) == [i \in 1..(up - lo) |-> Ent(sts[lo + i])]

ReaddirReturned == pc = "idle" /\ ret.op = "Readdir"
ReaddirSucceeded == ReaddirReturned /\ ret.err \notin {"staticset", "dirEntry"}

\* C1: whatever the order in which the goroutines complete, the entries a
\* successful Readdir returns (and the ones collected so far while it runs) are
\* those of the members of the launched range, in member order: entry i is the
\* entry of member cursor+i, none reordered, duplicated or dropped.
C1_OrderPreserved ==
    /\ pc = "collect" =>
          rd.entries = EntriesOf(rd.sts, rd.lo, rd.lo + rd.ci)
    /\ ReaddirSucceeded => ret.entries = EntriesOf(rd.sts, rd.lo, rd.up)

\* a three-entry page returned after a goroutine finished ahead of an earlier one
C1_Witness ==
    /\ ReaddirSucceeded
    /\ hist.outOfOrder
    /\ Len(ret.entries) >= 3

\* C2: when a goroutine of the batch reported an error, Readdir returns no entry
\* and a non-nil error; successfully resolved entries never leak out.
C2_AtomicBatch ==
    (ReaddirReturned /\ hist.anyErr) =>
        /\ ret.entries = <<>>
        /\ ret.err \notin {"nil", "io.EOF"}

\* a batch that failed at a later member after an earlier entry was collected
C2_Witness ==
    /\ ReaddirReturned
    /\ hist.anyErr
    /\ rd.entries # <<>>
    /\ ret.entries = <<>>

\* C3: the cached member list is either unset or the complete member list of
\* the static-set blob (no partial list is ever cached), and StaticSet never
\* returns a truncated member list as a success.
C3_NoPartialCache ==
    pc \in {"idle", "launch", "collect"} =>
        /\ \/ dr.staticSet = <<>>
           \/ dr.staticSet = store[SSRef].Members
        /\ (ret.op = "StaticSet" /\ ret.err = "nil") => ret.val = store[SSRef].Members

\* C4: once StaticSet has succeeded, no later StaticSet or Readdir call fetches
\* anything: the static-set blob is fetched exactly once.
C4_SingleFetch ==
    hist.resolvedAt > 0 => Len(fetched) = hist.resolvedAt

\* C5: NewDirReader fetches the directory blob once and nothing else, fails
\* when the blob is not of type "directory", and otherwise returns a DirReader
\* with cursor 0 and no cached static-set.
C5_Construction ==
    /\ ret.op = "NewDirReader" =>
          /\ fetched = IF Valid(dirRef) THEN <<dirRef>> ELSE <<>>
          /\ pc = "idle" => dr.current = 0 /\ dr.staticSet = <<>>
          /\ (ret.err = "nil") = (pc = "idle")
    /\ pc \notin {"start", "nodr"} =>
          /\ store[DirRef].Type = "directory"
          /\ dr.ss = store[DirRef]
    /\ (pc # "start" /\ store[DirRef].Type # "directory") =>
          pc = "nodr" /\ ret.err # "nil"

\* a DirReader just built on a directory whose static-set exists and is unfetched
C5_Witness ==
    /\ ret.op = "NewDirReader"
    /\ pc = "idle"
    /\ dr.ss.Entries = SSRef
    /\ Len(store[SSRef].Members) > 0
    /\ fetched = <<DirRef>>

\* C6: a successful Readdir(n), n > 0, returns exactly the entries of the
\* members at [cursor, min(cursor+n, len)), that is min(n, len-cursor) entries.
C6_PageRange ==
    (ReaddirSucceeded /\ rd.n > 0) =>
        LET len == Len(rd.sts) IN
        /\ ret.entries = EntriesOf(rd.sts, rd.cur0, Min(rd.cur0 + rd.n, len))
        /\ Len(ret.entries) = Min(rd.n, len - rd.cur0)

\* five members, cursor 0, Readdir(2): the entries of members 0 and 1
C6_Witness ==
    /\ ReaddirSucceeded
    /\ rd.n = 2 /\ rd.cur0 = 0 /\ Len(rd.sts) = 5
    /\ ret.entries = <<Ent(MemberNames[1]), Ent(MemberNames[2])>>

\* C7: a Readdir(n), n > 0, with fewer than n members left returns the entries
\* of the clamped range together with io.EOF.
C7_EOFReturned ==
    (ReaddirSucceeded /\ rd.n > 0 /\ rd.cur0 + rd.n > Len(rd.sts)) =>
        /\ ret.entries = EntriesOf(rd.sts, rd.cur0, Len(rd.sts))
        /\ ret.err = "io.EOF"

\* C8: a successful Readdir(n), n <= 0, leaves the cursor at 0 and returns the
\* entries of all members, in order, whatever calls came before.
C8_ListAll ==
    (ReaddirSucceeded /\ rd.n <= 0) =>
        /\ dr.current = 0
        /\ ret.entries = EntriesOf(rd.sts, 0, Len(rd.sts))

\* Readdir(0) over five members, right after a successful page
C8_Witness ==
    /\ ReaddirSucceeded
    /\ rd.n = 0
    /\ Len(ret.entries) = 5
    /\ hist.prev.op = "Readdir" /\ hist.prev.err = "nil" /\ hist.prev.n > 0
    /\ hist.prev.entries # <<>>

\* C9: the cursor never leaves 0, a page leaves it where it was, and a
\* successful Readdir(n) that follows a successful Readdir(n) with the same
\* n > 0 returns the same entries.
C9_CursorNeverAdvances ==
    /\ dr.current = 0
    /\ (ReaddirSucceeded /\ rd.n > 0) => dr.current = rd.cur0
    /\ ( /\ ReaddirSucceeded /\ rd.n > 0
         /\ hist.prev.op = "Readdir" /\ hist.prev.err = "nil"
         /\ hist.prev.n = rd.n )
       => ret.entries = hist.prev.entries

\* two successful Readdir(2) in a row over five members
C9_Witness ==
    /\ ReaddirSucceeded
    /\ rd.n = 2 /\ Len(rd.sts) = 5
    /\ hist.prev.op = "Readdir" /\ hist.prev.err = "nil" /\ hist.prev.n = 2
    /\ Len(ret.entries) = 2
    /\ ret.entries = hist.prev.entries

\* C10: every ref handed to the Fetcher (and to the entry resolver) is valid;
\* NewDirReader on an invalid ref and StaticSet on an invalid entries ref fail
\* without any fetch.
C10_NoFetchOfInvalidRef ==
    /\ \A i \in 1..Len(fetched) : Valid(fetched[i])
    /\ \A i \in 1..Len(cs) : Valid(cs[i].entRef)
    /\ ~Valid(dirRef) => fetched = <<>> /\ pc \in {"start", "nodr"}
    /\ (pc # "start" /\ ~Valid(dirRef)) => ret.err # "nil"
    /\ (pc = "idle" /\ ~Valid(dr.ss.Entries)) =>
          /\ fetched = <<dirRef>>
          /\ ret.op \in {"StaticSet", "Readdir"} => ret.err # "nil"

\* StaticSet failed twice on a directory without a valid entries ref
C10_Witness ==
    /\ pc = "idle"
    /\ ret.op = "StaticSet"
    /\ ret.err = "invalid"
    /\ ~Valid(dr.ss.Entries)
    /\ calls >= 2
    /\ fetched = <<DirRef>>

\* C11: when NewDirReader or StaticSet (or the Readdir that calls it) has
\* returned, every byte stream the Fetcher handed out has been closed.
C11_StreamsClosed ==
    pc \in {"idle", "nodr"} => open = 0

\* C12 as stated: Readdir never returns while a goroutine of its batch is still
\* running.
C12_AwaitsAll ==
    ReaddirReturned => hist.left = 0

\* C12, amended: Readdir returns at the first result, in launch order, that
\* carries an error, without waiting for the goroutines launched after it: only
\* those later ones can still be running when it returns. A Readdir that
\* succeeds returns with no goroutine of its batch running.
C12_ReturnsAtFirstError ==
    ReaddirReturned =>
        /\ ret.err \in {"nil", "staticset"} => hist.left = 0
        /\ ret.err = "dirEntry" =>
              /\ Len(rd.entries) = rd.ci
              /\ hist.left <= (rd.up - rd.lo) - (rd.ci + 1)

\* Readdir failed at its second result and left goroutines running
C12_Witness ==
    /\ ReaddirReturned
    /\ ret.err = "dirEntry"
    /\ rd.ci = 1
    /\ hist.left >= 2

\* C13: a goroutine never blocks on its send: while it runs its own channel is
\* empty and the send is enabled, also after its Readdir has returned; no
\* channel ever holds more than one result.
C13_SendNeverBlocks ==
    /\ \A i \in 1..Len(cs) :
          /\ Len(cs[i].c) <= 1
          /\ cs[i].c # <<>> => cs[i].st = "done"
          /\ cs[i].st = "running" => cs[i].c = <<>> /\ ENABLED TaskRun(i)
    /\ orphans > 0 => ENABLED OrphanRun

\* the goroutines a failed Readdir left running have all finished
C13_Witness ==
    /\ ReaddirReturned
    /\ ret.err = "dirEntry"
    /\ hist.left >= 2
    /\ orphans = 0

\* C14: one goroutine per member of the range, each on its own member ref, each
\* reporting one result of the entry resolver on that ref; nothing is received
\* before all are launched, and the results are received in launch order.
C14_OneTaskPerMember ==
    /\ pc \in {"launch", "collect"} =>
          \A i \in 1..Len(cs) :
              /\ cs[i].entRef = rd.sts[rd.lo + i]
              /\ cs[i].c # <<>> =>
                    \E ok \in BOOLEAN :
                        Head(cs[i].c) = NewDirectoryEntryFromBlobRef(rd.sts[rd.lo + i], ok)
    /\ pc = "launch" =>
          /\ Len(cs) < rd.up - rd.lo
          /\ rd.ci = 0 /\ rd.entries = <<>>
    /\ pc = "collect" =>
          /\ Len(cs) = rd.up - rd.lo
          /\ \A i \in 1..Len(cs) :
                /\ i <= rd.ci => cs[i].st = "done" /\ cs[i].c = <<>>
                /\ (i > rd.ci /\ cs[i].st = "done") => Len(cs[i].c) = 1

\* five goroutines launched and all running at once, none received yet
C14_Witness ==
    /\ pc = "collect"
    /\ Len(cs) = 5
    /\ rd.ci = 0
    /\ \A i \in 1..Len(cs) : cs[i].st = "running"

\* C15: no step taken while Readdir's goroutines are launched, run and are
\* collected, and no step of a goroutine that outlived its Readdir, changes the
\* DirReader (cursor, cached static-set).
C15_TasksLeaveDirReader ==
    [][(pc \in {"launch", "collect"} \/ orphans' < orphans) => dr' = dr]_vars

\* results being collected after goroutines finished out of launch order
C15_Witness ==
    /\ pc = "collect"
    /\ rd.ci >= 1
    /\ hist.outOfOrder
    /\ dr.staticSet = rd.sts /\ dr.current = rd.lo

\* C16: a failed fetch, a blob that does not decode or a blob of the wrong type
\* makes the operation return an error after exactly one Fetch of that blob; a
\* Readdir whose static-set resolution fails returns no entry and launches no
\* goroutine.
C16_NoRetry ==
    /\ (ret.op = "NewDirReader" /\ ret.err \in {"fetch", "decode", "type"}) =>
          /\ fetched = <<dirRef>>
          /\ pc = "nodr"
    /\ ( /\ pc = "idle" /\ ret.op \in {"StaticSet", "Readdir"}
         /\ hist.ssErr \in {"fetch", "decode", "type"} ) =>
          /\ ret.err # "nil"
          /\ Len(fetched) = hist.log0 + 1
          /\ fetched[Len(fetched)] = dr.ss.Entries
          /\ ret.op = "Readdir" =>
                /\ ret.entries = <<>>
                /\ cs = <<>> /\ rd.sts = <<>> /\ hist.left = 0

\* a Readdir that failed on a second failed fetch of the static-set blob
C16_Witness ==
    /\ ReaddirReturned
    /\ hist.ssErr = "fetch"
    /\ ret.entries = <<>>
    /\ Len(fetched) = 3

----------------------------------------------------------------------------
(* Properties of the auth package (specification AuthSpec) *)

\* the positions of the colons of str
Colons(str) == {i \in 1..Len(str) : str[i] = ":"}

\* str reads user ":" password, where user holds no colon, the password is
\* m's and, for a UserPass mode, the user is m's
CarriesCredentials(m, str) ==
    \E k \in 1..Len(str) :
        /\ str[k] = ":"
        /\ \A i \in 1..(k - 1) : str[i] # ":"
        /\ SubSeq(str, k + 1, Len(str)) = m.Password
        /\ m.kind = "UserPass" => SubSeq(str, 1, k - 1) = m.Username

\* C17: under a configured mode the wrapped handler runs exactly for the
\* requests the mode's IsAuthorized accepts, which are the requests with a
\* decodable Basic header carrying the mode's credentials; every other request
\* gets a 401 with a WWW-Authenticate Basic challenge and the handler does not
\* run.
C17_HandlerIffAuthorized ==
    (resp.op = "request" /\ resp.mode.kind # "nil") =>
        /\ ~resp.panic
        /\ resp.handler = IsAuthorized(resp.mode, resp.auth)
        /\ resp.handler =
              ( /\ resp.auth.scheme = "Basic"
                /\ resp.auth.payload = "ok"
                /\ CarriesCredentials(resp.mode, resp.auth.plain) )
        /\ resp.handler => resp.status = 0 /\ resp.wwwAuthenticate = <<>>
        /\ ~resp.handler =>
              /\ resp.status = 401
              /\ resp.wwwAuthenticate # <<>>
              /\ Head(resp.wwwAuthenticate) = "Basic realm="

\* a request with joe's name and a wrong password, rejected under userpass:joe:ponies
C17_Witness ==
    /\ resp.op = "request"
    /\ resp.mode = UserPass(<<"joe">>, <<"ponies">>)
    /\ resp.auth = Basic(<<"joe", ":", "secret">>)
    /\ ~resp.handler
    /\ resp.status = 401

\* C18: with CAMLI_ADVERTISED_PASSWORD set, FromConfig makes the mode DevAuth
\* with that password whatever authConfig is, without error; otherwise
\* "userpass:user:password", with exactly two colons, makes it UserPass, and
\* any other string is an error that leaves the mode as it was.
C18_FromConfigSelectsMode ==
    cfg.op = "FromConfig" =>
        LET str == cfg.authConfig
            wellFormed == /\ Cardinality(Colons(str)) = 2
                          /\ str[1] = "userpass"
                          /\ str[2] = ":"
            c2 == CHOOSE i \in Colons(str) : \A j \in Colons(str) : j <= i
        IN
        IF env # <<>>
        THEN /\ mode = DevAuth(env)
             /\ cfg.ret = mode
             /\ cfg.err = "nil"
        ELSE IF wellFormed
        THEN /\ mode = UserPass(SubSeq(str, 3, c2 - 1), SubSeq(str, c2 + 1, Len(str)))
             /\ cfg.ret = mode
             /\ cfg.err = "nil"
        ELSE /\ cfg.err # "nil"
             /\ cfg.ret = NilMode
             /\ mode = cfg.before

\* a malformed userpass string rejected after userpass:joe:ponies was selected
C18_Witness ==
    /\ cfg.op = "FromConfig"
    /\ env = <<>>
    /\ cfg.authConfig = <<"userpass", ":", "joe", ":", "po", ":", "nies">>
    /\ cfg.err # "nil"
    /\ cfg.before = UserPass(<<"joe">>, <<"ponies">>)
    /\ mode = cfg.before

====
